---- MODULE Spec2Model ----
(***************************************************************************)
(* Model of geo_to_hca/utils/sra_utils.py: the functions that query NCBI   *)
(* eutils / SRA and parse the JSON, CSV or XML that comes back.            *)
(*                                                                         *)
(* One call of one function is executed at a time.  pc is the position of  *)
(* the call, log is the sequence of externally visible events of the call  *)
(* (pauses and HTTP GETs, in program order), outcome is how the call       *)
(* ended.  The provider is the environment: at every GET it answers with   *)
(* a transport failure or with any status and any body.                    *)
(*                                                                         *)
(* Text is modelled as a sequence of one-character strings, so that the    *)
(* regular expression, the substring test and the comma join are computed  *)
(* and not assumed.                                                        *)
(***************************************************************************)
EXTENDS Integers, Sequences, FiniteSets, TLC

VARIABLES pc, op, args, log, idlist, resp, outcome, gen

vars == <<pc, op, args, log, idlist, resp, outcome, gen>>

(***************************************************************************)
(* Bounds of the model.                                                    *)
(***************************************************************************)
MaxAccLen == 3      \* longest geo_accession string
MaxIds == 2         \* longest esearch idlist
MaxResults == 2     \* most values in the esummary 'result' object
MaxRel == 1         \* most entries in one 'extrelations' list
MaxAccs == 2        \* longest accession list given to an efetch function
MaxBody == 4        \* longest efetch body, in tokens
MaxChildren == 3    \* most children of the tree given to parse_xml_SRA_runs
MaxRows == 2        \* most lines of a run-info body

(***************************************************************************)
(* Text.                                                                   *)
(***************************************************************************)
SeqsUpTo(S, n) == UNION {[1..k -> S] : k \in 0..n}

NonEmptySeqsUpTo(S, n) == UNION {[1..k -> S] : k \in 1..n}

GeoChars == {"G", "S", "E", "\n"}

GeoStrings == SeqsUpTo(GeoChars, MaxAccLen)

RECURSIVE join(_, _)
\* sep.join(parts)
join(sep, parts) ==
    IF parts = <<>> THEN <<>>
    ELSE IF Len(parts) = 1 THEN parts[1]
    ELSE parts[1] \o sep \o join(sep, Tail(parts))

\* needle in haystack, for Python strings
contains(needle, haystack) ==
    \E i \in 1..(Len(haystack) - Len(needle) + 1) :
        SubSeq(haystack, i, i + Len(needle) - 1) = needle

\* re.compile('^GSE.*$').match(s): GSE at the start, then any run of
\* non-newline characters, then the end of the string or the newline that
\* ends the string.
regex_match(s) ==
    /\ Len(s) >= 3
    /\ SubSeq(s, 1, 3) = <<"G", "S", "E">>
    /\ \E j \in 3..Len(s) :
          /\ \A i \in 4..j : s[i] # "\n"
          /\ \/ j = Len(s)
             \/ j = Len(s) - 1 /\ s[Len(s)] = "\n"

(***************************************************************************)
(* HTTP.                                                                   *)
(***************************************************************************)
STATUS_ERROR_CODE == 400

Statuses == {200, 400, 500}

\* Response.raise_for_status(): HTTPError for 4xx and 5xx
raises_for_status(r) == r.status_code >= 400 /\ r.status_code < 600

\* requests.get raised instead of returning a response
ConnectionError == [exc |-> "ConnectionError"]

Responses(bodies) ==
    {ConnectionError} \cup [status_code : Statuses, content : bodies]

Sleep == [ev |-> "sleep"]

Get(url) == [ev |-> "GET", url |-> url]

Pending == [kind |-> "pending"]

Return(type, value) == [kind |-> "return", type |-> type, value |-> value]

ReturnNone == [kind |-> "return", type |-> "None"]

(***************************************************************************)
(* get_srp_accession_from_geo                                              *)
(***************************************************************************)
default_params == [db |-> "gds", retmode |-> "json"]

esearch_url(geo_accession) ==
    [endpoint |-> "esearch.fcgi", db |-> default_params.db,
     retmode |-> default_params.retmode, term |-> geo_accession]

esummary_url(summary_id) ==
    [endpoint |-> "esummary.fcgi", db |-> default_params.db,
     retmode |-> default_params.retmode, id |-> summary_id]

\* raise AssertionError(f'{geo_accession} is not a valid GEO accession')
AssertionError(geo_accession) ==
    [kind |-> "raise", error |-> "AssertionError", accession |-> geo_accession]

\* raise Exception(f'Failed to get SRP accessions for {geo_accession}: {e}')
FetchFailed(geo_accession, e) ==
    [kind |-> "raise", error |-> "Exception",
     accession |-> geo_accession, cause |-> e]

Ids == {1, 2}

NotJson == [notjson |-> TRUE]

NoSuchKey == [error |-> "x"]

SearchBodies ==
    {NotJson, NoSuchKey}
      \cup {[esearchresult |-> [idlist |-> l]] : l \in SeqsUpTo(Ids, MaxIds)}

SRP1 == <<"S", "R", "P", "1">>

xSRP == <<"x", "S", "R", "P">>

SRX1 == <<"S", "R", "X", "1">>

Relations ==
    {[targetobject |-> t, relationtype |-> "SRA"] : t \in {SRP1, xSRP, SRX1}}

\* a value of the 'result' object: the 'uids' list, a document summary
\* with its 'extrelations', or a document summary without that key
ResultValues ==
    {[type |-> "list"]}
      \cup {[type |-> "dict", d |-> [uid |-> 1]]}
      \cup {[type |-> "dict", d |-> [uid |-> 1, extrelations |-> e]] :
              e \in SeqsUpTo(Relations, MaxRel)}

SummaryBodies ==
    {NotJson, NoSuchKey}
      \cup {[result |-> v] : v \in SeqsUpTo(ResultValues, MaxResults)}

\* x.get('targetobject', '')
get_targetobject(x) ==
    IF "targetobject" \in DOMAIN x THEN x.targetobject ELSE <<>>

\* [x for x in r.json()['result'].values() if type(x) is dict]
results_of(values) == SelectSeq(values, LAMBDA x : x.type = "dict")

\* some x.get('extrelations') is None, and iterating it raises TypeError
some_extrelations_missing(results) ==
    \E i \in 1..Len(results) : "extrelations" \notin DOMAIN results[i].d

RECURSIVE extrelations_of(_)
\* [x for x in [x.get('extrelations') for x in results] for x in x]
extrelations_of(results) ==
    IF results = <<>> THEN <<>>
    ELSE Head(results).d.extrelations \o extrelations_of(Tail(results))

RECURSIVE targets_of_startswith(_)
\* as targets_of, with x.get('targetobject', '').startswith('SRP')
targets_of_startswith(extrelations) ==
    IF extrelations = <<>> THEN <<>>
    ELSE (IF /\ Len(get_targetobject(Head(extrelations))) >= 3
             /\ SubSeq(get_targetobject(Head(extrelations)), 1, 3) = <<"S", "R", "P">>
          THEN <<Head(extrelations).targetobject>> ELSE <<>>)
         \o targets_of_startswith(Tail(extrelations))

RECURSIVE targets_of(_)
\* [x['targetobject'] for x in extrelations if 'SRP' in x.get('targetobject', '')]
targets_of(extrelations) ==
    IF extrelations = <<>> THEN <<>>
    ELSE (IF contains(<<"S", "R", "P">>, get_targetobject(Head(extrelations)))
          THEN <<Head(extrelations).targetobject>> ELSE <<>>)
         \o targets_of(Tail(extrelations))

\* as get_srp_accession_from_geo, with the pattern check inside the try block
get_srp_accession_from_geo_check_in_try ==
    /\ pc = "idle"
    /\ \E geo_accession \in GeoStrings :
         /\ op' = "get_srp_accession_from_geo"
         /\ args' = [geo_accession |-> geo_accession]
         /\ IF ~regex_match(geo_accession)
            THEN /\ outcome' = FetchFailed(geo_accession, "AssertionError")
                 /\ pc' = "done"
            ELSE /\ outcome' = Pending
                 /\ pc' = "esearch"
    /\ UNCHANGED <<log, idlist, resp, gen>>

\* the entry of the function: the pattern check, outside the try block
get_srp_accession_from_geo ==
    /\ pc = "idle"
    /\ \E geo_accession \in GeoStrings :
         /\ op' = "get_srp_accession_from_geo"
         /\ args' = [geo_accession |-> geo_accession]
         /\ IF ~regex_match(geo_accession)
            THEN /\ outcome' = AssertionError(geo_accession)
                 /\ pc' = "done"
            ELSE /\ outcome' = Pending
                 /\ pc' = "esearch"
    /\ UNCHANGED <<log, idlist, resp, gen>>

\* what lines 39-43 make of the answer to the search request:
\* the next position, the id list and the outcome
esearch_step(geo_accession, r) ==
    IF r = ConnectionError
    THEN [pc |-> "done", idlist |-> <<>>,
          outcome |-> FetchFailed(geo_accession, "ConnectionError")]
    ELSE IF raises_for_status(r)
    THEN [pc |-> "done", idlist |-> <<>>,
          outcome |-> FetchFailed(geo_accession, "HTTPError")]
    ELSE IF r.content = NotJson
    THEN [pc |-> "done", idlist |-> <<>>,
          outcome |-> FetchFailed(geo_accession, "JSONDecodeError")]
    ELSE IF "esearchresult" \notin DOMAIN r.content
    THEN [pc |-> "done", idlist |-> <<>>,
          outcome |-> FetchFailed(geo_accession, "KeyError")]
    ELSE IF r.content.esearchresult.idlist = <<>>
    THEN \* the loop body never runs and the function falls off its end
         [pc |-> "done", idlist |-> <<>>, outcome |-> ReturnNone]
    ELSE [pc |-> "esummary", idlist |-> r.content.esearchresult.idlist,
          outcome |-> Pending]

esearch ==
    /\ pc = "esearch"
    /\ \E r \in Responses(SearchBodies) :
         LET s == esearch_step(args.geo_accession, r) IN
         /\ log' = Append(log, Get(esearch_url(args.geo_accession)))
         /\ resp' = r
         /\ pc' = s.pc
         /\ idlist' = s.idlist
         /\ outcome' = s.outcome
    /\ UNCHANGED <<op, args, gen>>

\* lines 46-50: the outcome of the first iteration of the loop, which returns
esummary_step(geo_accession, r) ==
    IF r = ConnectionError
    THEN FetchFailed(geo_accession, "ConnectionError")
    ELSE IF raises_for_status(r)
    THEN FetchFailed(geo_accession, "HTTPError")
    ELSE IF r.content = NotJson
    THEN FetchFailed(geo_accession, "JSONDecodeError")
    ELSE IF "result" \notin DOMAIN r.content
    THEN FetchFailed(geo_accession, "KeyError")
    ELSE LET results == results_of(r.content.result) IN
         IF some_extrelations_missing(results)
         THEN FetchFailed(geo_accession, "TypeError")
         ELSE Return("list", targets_of(extrelations_of(results)))

\* as summary_id_of, taking the last id of the list
summary_id_last(ids) == ids[Len(ids)]

\* the id the summary request is made for: the loop variable of line 43
summary_id_of(ids) == Head(ids)

esummary ==
    /\ pc = "esummary"
    /\ \E r \in Responses(SummaryBodies) :
         /\ log' = Append(log, Get(esummary_url(summary_id_of(idlist))))
         /\ resp' = r
         /\ outcome' = esummary_step(args.geo_accession, r)
         /\ pc' = "done"
    /\ UNCHANGED <<op, args, idlist, gen>>

(***************************************************************************)
(* XML.  A body is a sequence of tokens: a start tag, an end tag or text.  *)
(***************************************************************************)
Tokens == {"<e>", "</e>", "t"}

XmlBodies == SeqsUpTo(Tokens, MaxBody)

Element(tag, id, children) == [tag |-> tag, id |-> id, children |-> children]

NoParse == [ok |-> FALSE, children |-> <<>>, rest |-> <<>>]

RECURSIVE parse_content(_)
\* the content of an element: text and child elements, up to the end tag
\* that closes it (left in rest) or to the end of the input
parse_content(toks) ==
    IF toks = <<>> THEN [ok |-> TRUE, children |-> <<>>, rest |-> <<>>]
    ELSE IF Head(toks) = "t" THEN parse_content(Tail(toks))
    ELSE IF Head(toks) = "</e>"
    THEN [ok |-> TRUE, children |-> <<>>, rest |-> toks]
    ELSE LET inner == parse_content(Tail(toks)) IN
         IF ~inner.ok \/ inner.rest = <<>> THEN NoParse
         ELSE LET after == parse_content(Tail(inner.rest)) IN
              IF ~after.ok THEN NoParse
              ELSE [ok |-> TRUE,
                    children |-> <<Element("e", 0, inner.children)>>
                                   \o after.children,
                    rest |-> after.rest]

\* xm.fromstring(content) returns a tree: one root element and nothing
\* around it
parses(content) ==
    /\ content # <<>>
    /\ Head(content) = "<e>"
    /\ LET inner == parse_content(Tail(content)) IN
       inner.ok /\ inner.rest = <<"</e>">>

\* the tree xm.fromstring(content) returns when it does not raise
fromstring(content) ==
    Element("e", 0, parse_content(Tail(content)).children)

(***************************************************************************)
(* The efetch functions                                                    *)
(***************************************************************************)
SRR1 == <<"S", "R", "R", "1">>

SAMN1 == <<"S", "A", "M", "N", "1">>

SampleAccessions == {SRR1, SAMN1}

AccessionLists == NonEmptySeqsUpTo(SampleAccessions, MaxAccs)

AccessionTypes == {"biosample", "experiment", "run"}

efetch_url(db, id) == [endpoint |-> "efetch/fcgi", db |-> db, id |-> id]

\* raise handle_errors.NotFoundSRA(response, accessions)
NotFoundSRA(response, accessions) ==
    [kind |-> "raise", error |-> "NotFoundSRA",
     response |-> response, accessions |-> accessions]

\* an exception the function does not catch
Uncaught(error) == [kind |-> "raise", error |-> error]

\* as request_fastq_from_SRA_step, without the try/except around the parse
request_fastq_from_SRA_step_no_except(srr_accessions, r) ==
    IF r = ConnectionError THEN Uncaught("ConnectionError")
    ELSE IF r.status_code = STATUS_ERROR_CODE
    THEN NotFoundSRA(r, srr_accessions)
    ELSE IF parses(r.content) THEN Return("tree", fromstring(r.content))
    ELSE Uncaught("ParseError")

\* lines 79-85
request_fastq_from_SRA_step(srr_accessions, r) ==
    IF r = ConnectionError THEN Uncaught("ConnectionError")
    ELSE IF r.status_code = STATUS_ERROR_CODE
    THEN NotFoundSRA(r, srr_accessions)
    ELSE IF parses(r.content) THEN Return("tree", fromstring(r.content))
    ELSE ReturnNone

\* as status_then_fromstring, parsing before the status is looked at
fromstring_then_status(accessions, r) ==
    IF r = ConnectionError THEN Uncaught("ConnectionError")
    ELSE IF ~parses(r.content) THEN Uncaught("ParseError")
    ELSE IF r.status_code = STATUS_ERROR_CODE
    THEN NotFoundSRA(r, accessions)
    ELSE Return("tree", fromstring(r.content))

\* as status_then_fromstring, with r.raise_for_status() after the 400 check
status_then_fromstring_raise_for_status(accessions, r) ==
    IF r = ConnectionError THEN Uncaught("ConnectionError")
    ELSE IF r.status_code = STATUS_ERROR_CODE
    THEN NotFoundSRA(r, accessions)
    ELSE IF raises_for_status(r) THEN Uncaught("HTTPError")
    ELSE IF parses(r.content) THEN Return("tree", fromstring(r.content))
    ELSE Uncaught("ParseError")

\* lines 98-100, 110-112 and 122-124: the same three lines with other names
status_then_fromstring(accessions, r) ==
    IF r = ConnectionError THEN Uncaught("ConnectionError")
    ELSE IF r.status_code = STATUS_ERROR_CODE
    THEN NotFoundSRA(r, accessions)
    ELSE IF parses(r.content) THEN Return("tree", fromstring(r.content))
    ELSE Uncaught("ParseError")

request_fastq_from_SRA_url(srr_accessions) ==
    efetch_url("sra", join(<<",">>, srr_accessions))

request_fastq_from_SRA ==
    /\ pc = "idle"
    /\ \E srr_accessions \in AccessionLists :
         /\ op' = "request_fastq_from_SRA"
         /\ args' = [accessions |-> srr_accessions]
    /\ log' = Append(log, Sleep)
    /\ pc' = "rq_get"
    /\ UNCHANGED <<idlist, resp, outcome, gen>>

request_fastq_from_SRA_get ==
    /\ pc = "rq_get"
    /\ op = "request_fastq_from_SRA"
    /\ \E r \in Responses(XmlBodies) :
         /\ log' = Append(log, Get(request_fastq_from_SRA_url(args.accessions)))
         /\ resp' = r
         /\ outcome' = request_fastq_from_SRA_step(args.accessions, r)
    /\ pc' = "done"
    /\ UNCHANGED <<op, args, idlist, gen>>

\* as request_accession_info_db, with the two databases exchanged
request_accession_info_db_swapped(accession_type) ==
    IF accession_type = "biosample" THEN "sra"
    ELSE IF accession_type = "experiment" THEN "biosample"
    ELSE "unbound"

\* lines 93-96: the database the accession type selects
request_accession_info_db(accession_type) ==
    IF accession_type = "biosample" THEN "biosample"
    ELSE IF accession_type = "experiment" THEN "sra"
    ELSE "unbound"

request_accession_info_url(accessions, accession_type) ==
    efetch_url(request_accession_info_db(accession_type),
               join(<<",">>, accessions))

request_accession_info ==
    /\ pc = "idle"
    /\ \E accessions \in AccessionLists, accession_type \in AccessionTypes :
         /\ op' = "request_accession_info"
         /\ args' = [accessions |-> accessions, accession_type |-> accession_type]
         /\ IF request_accession_info_db(accession_type) = "unbound"
            THEN \* neither if assigned url: line 97 reads an unbound local
                 /\ outcome' = Uncaught("UnboundLocalError")
                 /\ pc' = "done"
            ELSE /\ outcome' = Pending
                 /\ pc' = "rq_get"
    /\ UNCHANGED <<log, idlist, resp, gen>>

request_accession_info_get ==
    /\ pc = "rq_get"
    /\ op = "request_accession_info"
    /\ \E r \in Responses(XmlBodies) :
         /\ log' = Append(log, Get(request_accession_info_url(
                                      args.accessions, args.accession_type)))
         /\ resp' = r
         /\ outcome' = status_then_fromstring(args.accessions, r)
    /\ pc' = "done"
    /\ UNCHANGED <<op, args, idlist, gen>>

request_bioproject_metadata_url(bioproject_accession) ==
    efetch_url("bioproject", bioproject_accession)

\* as request_bioproject_metadata, without the sleep of line 107
request_bioproject_metadata_nosleep ==
    /\ pc = "idle"
    /\ \E bioproject_accession \in SampleAccessions :
         /\ op' = "request_bioproject_metadata"
         /\ args' = [accessions |-> bioproject_accession]
    /\ pc' = "rq_get"
    /\ UNCHANGED <<log, idlist, resp, outcome, gen>>

request_bioproject_metadata ==
    /\ pc = "idle"
    /\ \E bioproject_accession \in SampleAccessions :
         /\ op' = "request_bioproject_metadata"
         /\ args' = [accessions |-> bioproject_accession]
    /\ log' = Append(log, Sleep)
    /\ pc' = "rq_get"
    /\ UNCHANGED <<idlist, resp, outcome, gen>>

request_bioproject_metadata_get ==
    /\ pc = "rq_get"
    /\ op = "request_bioproject_metadata"
    /\ \E r \in Responses(XmlBodies) :
         /\ log' = Append(log, Get(request_bioproject_metadata_url(args.accessions)))
         /\ resp' = r
         /\ outcome' = status_then_fromstring(args.accessions, r)
    /\ pc' = "done"
    /\ UNCHANGED <<op, args, idlist, gen>>

request_pubmed_metadata_url(project_pubmed_id) ==
    [endpoint |-> "efetch/fcgi", db |-> "pubmed", id |-> project_pubmed_id,
     rettype |-> "xml"]

request_pubmed_metadata ==
    /\ pc = "idle"
    /\ \E project_pubmed_id \in SampleAccessions :
         /\ op' = "request_pubmed_metadata"
         /\ args' = [accessions |-> project_pubmed_id]
    /\ log' = Append(log, Sleep)
    /\ pc' = "rq_get"
    /\ UNCHANGED <<idlist, resp, outcome, gen>>

request_pubmed_metadata_get ==
    /\ pc = "rq_get"
    /\ op = "request_pubmed_metadata"
    /\ \E r \in Responses(XmlBodies) :
         /\ log' = Append(log, Get(request_pubmed_metadata_url(args.accessions)))
         /\ resp' = r
         /\ outcome' = status_then_fromstring(args.accessions, r)
    /\ pc' = "done"
    /\ UNCHANGED <<op, args, idlist, gen>>

(***************************************************************************)
(* get_srp_metadata                                                        *)
(***************************************************************************)
CsvLine == <<"Run", "spots">>

CsvBodies == SeqsUpTo({CsvLine}, MaxRows)

get_srp_metadata_url(srp_accession) ==
    [endpoint |-> "sra.cgi", save |-> "efetch", db |-> "sra",
     rettype |-> "runinfo", term |-> srp_accession]

\* pd.read_csv(url): the URL opener raises for an error status, an empty
\* body has no header line, otherwise the first line names the columns
read_csv(r) ==
    IF r = ConnectionError THEN Uncaught("URLError")
    ELSE IF r.status_code >= 400 THEN Uncaught("HTTPError")
    ELSE IF r.content = <<>> THEN Uncaught("EmptyDataError")
    ELSE Return("table", [columns |-> Head(r.content), rows |-> Tail(r.content)])

get_srp_metadata ==
    /\ pc = "idle"
    /\ \E srp_accession \in {SRP1, xSRP} :
         /\ op' = "get_srp_metadata"
         /\ args' = [accessions |-> srp_accession]
    /\ log' = Append(log, Sleep)
    /\ pc' = "rq_get"
    /\ UNCHANGED <<idlist, resp, outcome, gen>>

get_srp_metadata_get ==
    /\ pc = "rq_get"
    /\ op = "get_srp_metadata"
    /\ \E r \in Responses(CsvBodies) :
         /\ log' = Append(log, Get(get_srp_metadata_url(args.accessions)))
         /\ resp' = r
         /\ outcome' = read_csv(r)
    /\ pc' = "done"
    /\ UNCHANGED <<op, args, idlist, gen>>

(***************************************************************************)
(* parse_xml_SRA_runs: a generator over a tree the caller holds            *)
(***************************************************************************)
EP == "EXPERIMENT_PACKAGE"

\* the children a tree is built from: id is the identity of the element,
\* set from its place in the document when the tree is built
ChildShapes ==
    {[tag |-> EP, nested |-> <<>>],
     [tag |-> "ERROR", nested |-> <<>>],
     [tag |-> "ERROR", nested |-> <<EP>>],
     [tag |-> EP, nested |-> <<EP>>]}

build(shapes) ==
    Element("EXPERIMENT_PACKAGE_SET", 0,
            [k \in 1..Len(shapes) |->
               Element(shapes[k].tag, k,
                       [j \in 1..Len(shapes[k].nested) |->
                          Element(shapes[k].nested[j], 10 * k + j, <<>>)])])

Trees == {build(s) : s \in SeqsUpTo(ChildShapes, MaxChildren)}

RECURSIVE iter_all(_, _)
\* the elements below each of elems with that tag, in document order
iter_all(elems, tag) ==
    IF elems = <<>> THEN <<>>
    ELSE (IF Head(elems).tag = tag THEN <<Head(elems)>> ELSE <<>>)
         \o iter_all(Head(elems).children, tag)
         \o iter_all(Tail(elems), tag)

\* as findall, over all descendants (Element.iter(tag) without the root)
findall_iter(element, tag) == iter_all(element.children, tag)

\* Element.findall(tag): the direct children with that tag, in document order
findall(element, tag) == SelectSeq(element.children, LAMBDA c : c.tag = tag)

\* calling the generator function: no line of its body runs yet
parse_xml_SRA_runs ==
    /\ pc = "idle"
    /\ \E xml_content \in Trees :
         /\ op' = "parse_xml_SRA_runs"
         /\ args' = [xml_content |-> xml_content]
    /\ gen' = [i |-> 0, yielded |-> <<>>, runs |-> 1, prev |-> <<>>]
    /\ pc' = "gen"
    /\ UNCHANGED <<log, idlist, resp, outcome>>

\* next() on the generator: the next element of the list findall returned,
\* or the end of the loop
parse_xml_SRA_runs_next ==
    /\ pc = "gen"
    /\ LET found == findall(args.xml_content, EP) IN
       IF gen.i < Len(found)
       THEN /\ gen' = [gen EXCEPT !.i = gen.i + 1,
                                  !.yielded = Append(gen.yielded, found[gen.i + 1])]
            /\ pc' = "gen"
       ELSE /\ gen' = gen
            /\ pc' = "exhausted"
    /\ UNCHANGED <<op, args, log, idlist, resp, outcome>>

\* the caller calls the function again with the tree it still holds
parse_xml_SRA_runs_again ==
    /\ pc = "exhausted"
    /\ gen.runs = 1
    /\ gen' = [i |-> 0, yielded |-> <<>>, runs |-> 2, prev |-> gen.yielded]
    /\ pc' = "gen"
    /\ UNCHANGED <<op, args, log, idlist, resp, outcome>>

Init ==
    /\ pc = "idle"
    /\ op = "none"
    /\ args = [none |-> TRUE]
    /\ log = <<>>
    /\ idlist = <<>>
    /\ resp = [none |-> TRUE]
    /\ outcome = Pending
    /\ gen = [i |-> 0, yielded |-> <<>>, runs |-> 0, prev |-> <<>>]

Next ==
    \/ get_srp_accession_from_geo
    \/ esearch
    \/ esummary
    \/ get_srp_metadata
    \/ get_srp_metadata_get
    \/ parse_xml_SRA_runs
    \/ parse_xml_SRA_runs_next
    \/ parse_xml_SRA_runs_again
    \/ request_fastq_from_SRA
    \/ request_fastq_from_SRA_get
    \/ request_accession_info
    \/ request_accession_info_get
    \/ request_bioproject_metadata
    \/ request_bioproject_metadata_get
    \/ request_pubmed_metadata
    \/ request_pubmed_metadata_get

Spec == Init /\ [][Next]_vars

(***************************************************************************)
(* Vocabulary of the properties.                                           *)
(***************************************************************************)
GEO == "get_srp_accession_from_geo"

EfetchOps ==
    {"request_fastq_from_SRA", "request_accession_info",
     "request_bioproject_metadata", "request_pubmed_metadata"}

FetchOps == EfetchOps \cup {"get_srp_metadata"}

HasStatus(r) == "status_code" \in DOMAIN r

\* the call has ended and its last request was answered with a status
Answered == pc = "done" /\ HasStatus(resp)

GetsOf(l) == SelectSeq(l, LAMBDA e : e.ev = "GET")

GetsTo(l, endpoint) ==
    SelectSeq(l, LAMBDA e : e.ev = "GET" /\ e.url.endpoint = endpoint)

IsFetchFailed(o, accession) ==
    /\ o.kind = "raise"
    /\ o.error = "Exception"
    /\ o.accession = accession
    /\ "cause" \in DOMAIN o

StartsWithGSE(s) == Len(s) >= 3 /\ s[1] = "G" /\ s[2] = "S" /\ s[3] = "E"

(***************************************************************************)
(* C1: an input that does not match the GEO-series pattern (in particular  *)
(* one that does not start with GSE) makes get_srp_accession_from_geo      *)
(* fail with the AssertionError (InvalidAccession), not wrapped in the     *)
(* 'Failed to get SRP accessions' exception, with no HTTP request issued.  *)
(***************************************************************************)
C1_InvalidAccession ==
    (/\ op = GEO
     /\ \/ ~StartsWithGSE(args.geo_accession)
        \/ ~regex_match(args.geo_accession))
    => /\ pc = "done"
       /\ log = <<>>
       /\ outcome.kind = "raise"
       /\ outcome.error = "AssertionError"
       /\ outcome.accession = args.geo_accession

C1_Witness ==
    /\ op = GEO
    /\ pc = "done"
    /\ args.geo_accession = <<"S", "G", "E">>
    /\ outcome = AssertionError(<<"S", "G", "E">>)

(***************************************************************************)
(* C2: when the search returned at least one id and the summary request    *)
(* succeeded (a 2xx answer whose JSON has a 'result' object in which every *)
(* document summary carries its 'extrelations' list), the function returns *)
(* the targetobject of exactly those relations whose targetobject contains *)
(* SRP, in the order of the response.                                      *)
(***************************************************************************)
MentionsSRP(x) ==
    /\ "targetobject" \in DOMAIN x
    /\ \E i \in 1..(Len(x.targetobject) - 2) :
          /\ x.targetobject[i] = "S"
          /\ x.targetobject[i + 1] = "R"
          /\ x.targetobject[i + 2] = "P"

RECURSIVE RelationsIn(_)
\* the cross-reference relations of a 'result' object, in document order
RelationsIn(values) ==
    IF values = <<>> THEN <<>>
    ELSE RelationsIn(SubSeq(values, 1, Len(values) - 1))
         \o (IF values[Len(values)].type = "dict"
             THEN values[Len(values)].d.extrelations ELSE <<>>)

ExpectedAccessions(values) ==
    LET sel == SelectSeq(RelationsIn(values), MentionsSRP)
    IN  [k \in 1..Len(sel) |-> sel[k].targetobject]

SummarySucceeded ==
    /\ op = GEO
    /\ Answered
    /\ Len(idlist) >= 1
    /\ Len(log) = 2
    /\ resp.status_code \in 200..299
    /\ "result" \in DOMAIN resp.content
    /\ \A i \in 1..Len(resp.content.result) :
          resp.content.result[i].type = "dict"
            => "extrelations" \in DOMAIN resp.content.result[i].d

C3_SequenceOrFetchFailed ==
    (op = GEO /\ pc = "done" /\ regex_match(args.geo_accession))
    => \/ outcome.kind = "return" /\ outcome.type = "list"
       \/ IsFetchFailed(outcome, args.geo_accession)

(***************************************************************************)
(* C4: in each of the four efetch functions an answer with status 400 ends *)
(* the call with NotFoundSRA carrying the response and the requested       *)
(* accession(s), whatever the body is.                                     *)
(***************************************************************************)
C4_NotFoundOn400 ==
    (op \in EfetchOps /\ Answered /\ resp.status_code = 400)
    => /\ outcome.kind = "raise"
       /\ outcome.error = "NotFoundSRA"
       /\ outcome.accessions = args.accessions
       /\ outcome.response = resp

C4_Witness ==
    /\ op = "request_accession_info"
    /\ Answered
    /\ resp.status_code = 400
    /\ resp.content = <<"t">>
    /\ args.accessions = <<SRR1>>
    /\ outcome.kind = "raise"
    /\ outcome.error = "NotFoundSRA"

(***************************************************************************)
(* C5: request_fastq_from_SRA never fails on an answer whose status is not *)
(* 400: it returns the parsed tree when the body parses and None when it   *)
(* does not, an empty body included.                                       *)
(***************************************************************************)
C5_AbsentOnParseFailure ==
    (op = "request_fastq_from_SRA" /\ Answered /\ resp.status_code # 400)
    => /\ outcome.kind = "return"
       /\ resp.content = <<>> => outcome.type = "None"
       /\ ~parses(resp.content) => outcome.type = "None"
       /\ parses(resp.content)
            => outcome.type = "tree" /\ outcome.value = fromstring(resp.content)

C5_Witness ==
    /\ op = "request_fastq_from_SRA"
    /\ Answered
    /\ args.accessions = <<SRR1>>
    /\ resp.status_code = 200
    /\ resp.content = <<>>
    /\ outcome = ReturnNone

(***************************************************************************)
(* C6 as stated: in every efetch function an answer with a non-2xx status  *)
(* other than 400 ends the call in a FetchFailed error wrapping the        *)
(* requested accession(s).                                                 *)
(***************************************************************************)
OtherErrorStatus ==
    /\ op \in EfetchOps
    /\ Answered
    /\ resp.status_code \notin 200..299
    /\ resp.status_code # 400

C6_OtherStatusFetchFailed ==
    OtherErrorStatus => IsFetchFailed(outcome, args.accessions)

(***************************************************************************)
(* C6 as amended: a non-2xx status other than 400 is not looked at.  The   *)
(* body is parsed as for a 2xx answer: the tree is returned when it        *)
(* parses; when it does not, request_fastq_from_SRA returns None and the   *)
(* other three functions fail with the parse error.  No such answer ends   *)
(* in a FetchFailed error.                                                 *)
(***************************************************************************)
C6_OtherStatusParsed ==
    OtherErrorStatus
    => /\ ~IsFetchFailed(outcome, args.accessions)
       /\ parses(resp.content)
            => outcome = Return("tree", fromstring(resp.content))
       /\ ~parses(resp.content)
            => IF op = "request_fastq_from_SRA"
               THEN outcome = ReturnNone
               ELSE outcome.kind = "raise" /\ outcome.error = "ParseError"

C6_Witness ==
    /\ OtherErrorStatus
    /\ op = "request_pubmed_metadata"
    /\ resp.status_code = 500
    /\ resp.content = <<"<e>", "t", "</e>">>
    /\ outcome.kind = "return"
    /\ outcome.type = "tree"

(***************************************************************************)
(* C7: request_accession_info with type biosample or experiment issues     *)
(* exactly one GET, to the fetch endpoint, whose id is the accessions      *)
(* joined by commas in the given order and whose db is biosample for       *)
(* biosample and sra for experiment; the request has no other parameter,   *)
(* so the two requests for one list differ in db only.                     *)
(***************************************************************************)
RECURSIVE CommaSeparated(_)
CommaSeparated(parts) ==
    IF Len(parts) = 0 THEN <<>>
    ELSE IF Len(parts) = 1 THEN parts[1]
    ELSE CommaSeparated(SubSeq(parts, 1, Len(parts) - 1))
         \o <<",">> \o parts[Len(parts)]

C7_AccessionInfoRequest ==
    (/\ op = "request_accession_info"
     /\ args.accession_type \in {"biosample", "experiment"}
     /\ pc = "done")
    => /\ Len(log) = 1
       /\ log[1].ev = "GET"
       /\ DOMAIN log[1].url = {"endpoint", "db", "id"}
       /\ log[1].url.endpoint = "efetch/fcgi"
       /\ log[1].url.id = CommaSeparated(args.accessions)
       /\ args.accession_type = "biosample" => log[1].url.db = "biosample"
       /\ args.accession_type = "experiment" => log[1].url.db = "sra"

C7_Witness ==
    /\ op = "request_accession_info"
    /\ pc = "done"
    /\ args.accession_type = "experiment"
    /\ args.accessions = <<SAMN1, SRR1>>
    /\ log[1].url.db = "sra"
    /\ log[1].url.id = <<"S", "A", "M", "N", "1", ",", "S", "R", "R", "1">>

(***************************************************************************)
(* C8: parse_xml_SRA_runs yields the direct children of the tree that are  *)
(* named EXPERIMENT_PACKAGE, each once and in document order, and then     *)
(* ends; the tree is not changed, and calling the function again on it     *)
(* yields the same sequence.                                               *)
(***************************************************************************)
RECURSIVE PackagesAmong(_, _)
\* the elements named EXPERIMENT_PACKAGE among the first n children
PackagesAmong(children, n) ==
    IF n = 0 THEN <<>>
    ELSE PackagesAmong(children, n - 1)
         \o (IF children[n].tag = "EXPERIMENT_PACKAGE"
             THEN <<children[n]>> ELSE <<>>)

ExpectedPackages ==
    PackagesAmong(args.xml_content.children, Len(args.xml_content.children))

C8_Yielded ==
    op = "parse_xml_SRA_runs"
    => /\ Len(gen.yielded) <= Len(ExpectedPackages)
       /\ gen.yielded = SubSeq(ExpectedPackages, 1, Len(gen.yielded))
       /\ \A i, j \in 1..Len(gen.yielded) :
             gen.yielded[i].id = gen.yielded[j].id => i = j
       /\ pc = "exhausted" => gen.yielded = ExpectedPackages
       /\ gen.runs = 2 => gen.prev = ExpectedPackages

C8_ExperimentPackages ==
    /\ []C8_Yielded
    /\ [][op = "parse_xml_SRA_runs" => args' = args]_vars

C8_Witness ==
    /\ op = "parse_xml_SRA_runs"
    /\ pc = "exhausted"
    /\ gen.runs = 2
    /\ Len(args.xml_content.children) = 3
    /\ Len(gen.yielded) = 2
    /\ gen.prev = gen.yielded
    /\ \E k \in 1..3 :
          /\ args.xml_content.children[k].tag = "ERROR"
          /\ Len(args.xml_content.children[k].children) = 1

(***************************************************************************)
(* C9 as stated: in get_srp_metadata and in all four efetch functions no   *)
(* GET is issued before a pause was taken in the same call, and            *)
(* get_srp_accession_from_geo takes no pause.                              *)
(***************************************************************************)
PauseBeforeEachGet(l) ==
    \A i \in 1..Len(l) :
        l[i].ev = "GET" => \E j \in 1..(i - 1) : l[j].ev = "sleep"

NoPause(l) == \A i \in 1..Len(l) : l[i].ev # "sleep"

C9_PauseBeforeEveryFetch ==
    /\ op \in FetchOps => PauseBeforeEachGet(log)
    /\ op = GEO => NoPause(log)

(***************************************************************************)
(* C9 as amended: in get_srp_metadata, request_fastq_from_SRA,             *)
(* request_bioproject_metadata and request_pubmed_metadata no GET is       *)
(* issued before a pause was taken in the same call;                       *)
(* get_srp_accession_from_geo and request_accession_info take no pause.    *)
(***************************************************************************)
C9_PauseExceptAccessionInfo ==
    /\ op \in FetchOps \ {"request_accession_info"} => PauseBeforeEachGet(log)
    /\ op \in {GEO, "request_accession_info"} => NoPause(log)

C9_Witness ==
    /\ op = "request_bioproject_metadata"
    /\ pc = "done"
    /\ Len(log) = 2
    /\ log[1] = Sleep
    /\ log[2].ev = "GET"

(***************************************************************************)
(* C10: nothing is retried and a failure ends the call.  A fetch function  *)
(* issues at most one GET in a call.  get_srp_accession_from_geo, once the *)
(* input has passed the pattern check and the search was sent, has issued  *)
(* exactly one search request, first, and at most one summary request,     *)
(* after it, for the first id of the list the search returned.             *)
(***************************************************************************)
C10_NoRetry ==
    /\ outcome.kind = "raise" => pc = "done"
    /\ op \in FetchOps => Len(GetsOf(log)) <= 1
    /\ op = GEO =>
         LET searches == GetsTo(log, "esearch.fcgi")
             summaries == GetsTo(log, "esummary.fcgi")
         IN  /\ log = searches \o summaries
             /\ Len(searches) <= 1
             /\ Len(summaries) <= 1
             /\ (pc = "esummary" \/ (pc = "done" /\ regex_match(args.geo_accession)))
                  => Len(searches) = 1
             /\ Len(summaries) = 1
                  => /\ Len(idlist) >= 1
                     /\ summaries[1].url.id = idlist[1]
                     /\ pc = "done"

C10_Witness ==
    /\ op = GEO
    /\ pc = "done"
    /\ idlist = <<2, 1>>
    /\ Len(log) = 2
    /\ log[2].url.id = 2
    /\ outcome.kind = "raise"
====
